---- MODULE Spec2Model ----
(***************************************************************************)
(* Model of the parameter advisor (scripts/param_detector.py), the shared  *)
(* configuration (config.py) and the live monitor (scripts/monitor.py) of  *)
(* the DeepSeek-on-Inferentia2 deployment tooling, and of the load-test    *)
(* harness (test_model.py).                                                *)
(*                                                                         *)
(* Python floats are modelled as reduced rationals [num, den]; memory is   *)
(* counted in MiB (the source counts bytes) so that every quantity fits    *)
(* the checker's integers; a Python dict is a function whose DOMAIN is the *)
(* set of keys present.                                                    *)
(***************************************************************************)
EXTENDS Integers, Sequences, FiniteSets, TLC

VARIABLES
    Config,                  \* class-level Config state, one copy per Python process
    system_resources,        \* ResourceDetector.system_resources
    returned,                \* the dicts get_recommended_params has returned, in call order
    update_at,               \* Len(returned) when update_params last received the latest result
    recommended_params_json, \* configs/recommended_params.json
    platform,                \* what psutil and neuron-ls answer to the detection run
    detector,                \* the advisor's ResourceDetector: "none", "ready" or "exit1"
    last_token_count,        \* DeepSeekMonitor.last_token_count
    last_request_count,      \* DeepSeekMonitor.last_request_count
    last_check_time,         \* DeepSeekMonitor.last_check_time
    now,                     \* time.time()
    neuron_metrics,          \* display(): local neuron_metrics
    vllm_metrics,            \* display(): local vllm_metrics
    recommendations,         \* display(): local recommendations
    error,                   \* exception caught by display()'s except clauses
    scrape,                  \* the latest call of get_vllm_metrics: its time and raw counters
    keys,                    \* terminal input not yet read by stdscr.getch()
    c,                       \* display(): local c
    pc,                      \* position of the monitor in display()
    num_runs,                \* run_test_suite(): parameter num_runs
    test_case,               \* run_test_suite(): index of test_case in test_cases
    run,                     \* run_test_suite(): local run
    case_results,            \* run_test_suite(): local case_results
    all_results,             \* run_test_suite(): local all_results, the value returned
    suite                    \* position of the harness in run_test_suite()

vars == <<Config, system_resources, returned, update_at, recommended_params_json,
          platform, detector,
          last_token_count, last_request_count, last_check_time, now,
          neuron_metrics, vllm_metrics, recommendations, error, scrape,
          keys, c, pc,
          num_runs, test_case, run, case_results, all_results, suite>>

advisorVars == <<system_resources, returned, update_at, recommended_params_json,
                 platform, detector>>
monitorVars == <<last_token_count, last_request_count, last_check_time, now,
                 neuron_metrics, vllm_metrics, recommendations, error, scrape,
                 keys, c, pc>>
testerVars == <<num_runs, test_case, run, case_results, all_results, suite>>

----------------------------------------------------------------------------
(* Bounds *)

MaxDevices == 8
MaxCalls == 2
MaxMonDevices == 1
MaxProbeDelay == 1
MaxLines == 2
MaxTime == 8
MaxProbeLines == 2
MaxRuns == 2
MaxFailures == 1

----------------------------------------------------------------------------
(* Python floats as reduced rationals *)

RECURSIVE GCD(_, _)
GCD(a, b) == IF b = 0 THEN a ELSE GCD(b, a % b)

Abs(n) == IF n < 0 THEN -n ELSE n

Rat(n, d) ==
    LET g == GCD(Abs(n), Abs(d))
        s == IF d < 0 THEN -1 ELSE 1
    IN  [num |-> (s * n) \div g, den |-> (s * d) \div g]

RInt(n) == [num |-> n, den |-> 1]
RAdd(x, y) == Rat(x.num * y.den + y.num * x.den, x.den * y.den)
RSub(x, y) == Rat(x.num * y.den - y.num * x.den, x.den * y.den)
RMul(x, y) == Rat(x.num * y.num, x.den * y.den)
RDiv(x, y) == Rat(x.num * y.den, x.den * y.num)
RLt(x, y) == x.num * y.den < y.num * x.den
RGt(x, y) == RLt(y, x)
RGe(x, y) == ~RLt(x, y)
RLe(x, y) == ~RLt(y, x)

----------------------------------------------------------------------------
(* Python dicts *)

EmptyDict == [k \in {} |-> 0]

Get(d, k, default) == IF k \in DOMAIN d THEN d[k] ELSE default

----------------------------------------------------------------------------
(* config.py *)

Procs == {"param_detector", "monitor"}

GiB == 1024

ConfigDefaults ==
    [MODEL_REPO |-> "deepseek-ai/DeepSeek-R1",
     MODEL_DIR |-> "/home/ubuntu/models",
     MODEL_NAME |-> "deepseek-685b",
     MODEL_PORT |-> 8000,
     TENSOR_PARALLEL_SIZE |-> 2,
     MAX_MODEL_LEN |-> 2048,
     MAX_NUM_SEQS |-> 4,
     BLOCK_SIZE |-> 8,
     TEMPERATURE |-> Rat(6, 10),
     TOP_P |-> Rat(95, 100),
     PROMETHEUS_PORT |-> 9090,
     GRAFANA_PORT |-> 3000,
     MONITOR_INTERVAL |-> 2,
     LOG_DIR |-> "logs",
     CACHE_DIR |-> "cache",
     CONFIG_DIR |-> "configs"]

update_params_all_keys(cls, new_params) ==
    [cls EXCEPT
        !.TENSOR_PARALLEL_SIZE = Get(new_params, "tensor_parallel_size", cls.TENSOR_PARALLEL_SIZE),
        !.MAX_MODEL_LEN = Get(new_params, "max_model_len", cls.MAX_MODEL_LEN),
        !.MAX_NUM_SEQS = Get(new_params, "max_num_seqs", cls.MAX_NUM_SEQS),
        !.BLOCK_SIZE = Get(new_params, "block_size", cls.BLOCK_SIZE),
        !.TEMPERATURE = Get(new_params, "temperature", cls.TEMPERATURE),
        !.TOP_P = Get(new_params, "top_p", cls.TOP_P)]

update_params_reset(cls, new_params) ==
    [cls EXCEPT
        !.TENSOR_PARALLEL_SIZE = Get(new_params, "tensor_parallel_size", ConfigDefaults.TENSOR_PARALLEL_SIZE),
        !.MAX_MODEL_LEN = Get(new_params, "max_model_len", ConfigDefaults.MAX_MODEL_LEN),
        !.MAX_NUM_SEQS = Get(new_params, "max_num_seqs", ConfigDefaults.MAX_NUM_SEQS),
        !.BLOCK_SIZE = Get(new_params, "block_size", ConfigDefaults.BLOCK_SIZE)]

update_params(cls, new_params) ==
    [cls EXCEPT
        !.TENSOR_PARALLEL_SIZE = Get(new_params, "tensor_parallel_size", cls.TENSOR_PARALLEL_SIZE),
        !.MAX_MODEL_LEN = Get(new_params, "max_model_len", cls.MAX_MODEL_LEN),
        !.MAX_NUM_SEQS = Get(new_params, "max_num_seqs", cls.MAX_NUM_SEQS),
        !.BLOCK_SIZE = Get(new_params, "block_size", cls.BLOCK_SIZE)]

----------------------------------------------------------------------------
(* scripts/param_detector.py: ResourceDetector *)

\* Rows of the neuron-ls table as _detect_system_resources parses them:
\* nc_count = int(parts[1]), memory_total = int(GB) * 1024**3.
DeviceKinds ==
    <<[nc_count |-> 2, memory_total |-> 32 * GiB, memory_available |-> 32 * GiB],
      [nc_count |-> 8, memory_total |-> 32 * GiB, memory_available |-> 32 * GiB],
      [nc_count |-> 8, memory_total |-> 128 * GiB, memory_available |-> 128 * GiB]>>

\* The device lists a detection run can produce: up to MaxDevices rows, listed
\* kind by kind (no computation of the advisor reads the order of the rows).
KindSeqs(n) ==
    { f \in [1..n -> 1..Len(DeviceKinds)] : \A i \in 1..(n - 1) : f[i] <= f[i + 1] }

Snapshots ==
    UNION { { [neuron_devices |-> [i \in 1..n |-> DeviceKinds[f[i]]]] : f \in KindSeqs(n) } :
            n \in 0..MaxDevices }

RECURSIVE SumField(_, _)
SumField(devices, field) ==
    IF Len(devices) = 0 THEN 0
    ELSE devices[1][field] + SumField(Tail(devices), field)

\* sum(d.get('memory_total', 0) ...) / (1024**3)
total_memory_gb(resources) == Rat(SumField(resources.neuron_devices, "memory_total"), GiB)

calculate_tensor_parallel_size_by_cores(resources) ==
    LET core_count == SumField(resources.neuron_devices, "nc_count")
    IN  IF core_count >= 8 THEN 8
        ELSE IF core_count >= 4 THEN 4
        ELSE IF core_count >= 2 THEN 2
        ELSE 1

calculate_tensor_parallel_size_min1(resources) ==
    LET device_count == Len(resources.neuron_devices)
    IN  IF device_count >= 8 THEN 8
        ELSE IF device_count >= 4 THEN 4
        ELSE IF device_count >= 2 THEN 2
        ELSE 1

calculate_tensor_parallel_size(resources) ==
    LET device_count == Len(resources.neuron_devices)
    IN  IF device_count >= 8 THEN 8
        ELSE IF device_count >= 4 THEN 4
        ELSE 2

calculate_block_size_fallback16(resources) ==
    LET gb == total_memory_gb(resources)
    IN  IF RGe(gb, RInt(384)) THEN 32
        ELSE IF RGe(gb, RInt(256)) THEN 24
        ELSE 16

calculate_block_size(resources) ==
    LET gb == total_memory_gb(resources)
    IN  IF RGe(gb, RInt(384)) THEN 32
        ELSE IF RGe(gb, RInt(256)) THEN 24
        ELSE IF RGe(gb, RInt(128)) THEN 16
        ELSE 8

calculate_max_num_seqs_swapped(resources) ==
    LET gb == total_memory_gb(resources)
    IN  IF RGe(gb, RInt(384)) THEN 16
        ELSE IF RGe(gb, RInt(256)) THEN 8
        ELSE IF RGe(gb, RInt(128)) THEN 12
        ELSE 4

calculate_max_num_seqs(resources) ==
    LET gb == total_memory_gb(resources)
    IN  IF RGe(gb, RInt(384)) THEN 16
        ELSE IF RGe(gb, RInt(256)) THEN 12
        ELSE IF RGe(gb, RInt(128)) THEN 8
        ELSE 4

calculate_max_model_len(resources) ==
    LET gb == total_memory_gb(resources)
    IN  IF RGe(gb, RInt(384)) THEN 8192
        ELSE IF RGe(gb, RInt(256)) THEN 6144
        ELSE IF RGe(gb, RInt(128)) THEN 4096
        ELSE 2048

get_recommended_params(resources, cls) ==
    [tensor_parallel_size |-> calculate_tensor_parallel_size(resources),
     block_size |-> calculate_block_size(resources),
     max_num_seqs |-> calculate_max_num_seqs(resources),
     max_model_len |-> calculate_max_model_len(resources),
     temperature |-> cls.TEMPERATURE,
     top_p |-> cls.TOP_P]

\* A row of the neuron-ls table: text_ok says whether int(parts[1]) and
\* int(parts[2].split()[0]) both succeed on it.
Row(text_ok, nc_count, gb) == [text_ok |-> text_ok, nc_count |-> nc_count, gb |-> gb]

RowChoices == { Row(TRUE, 2, 32), Row(TRUE, 8, 128), Row(FALSE, 0, 0) }

\* What the detection run meets: whether psutil can read CPU and memory,
\* whether running neuron-ls raises, and the table rows it prints.
Platforms ==
    { [host_ok |-> h, probe_raised |-> TRUE, rows |-> <<>>] : h \in BOOLEAN } \cup
    { [host_ok |-> h, probe_raised |-> FALSE, rows |-> rs] :
        h \in BOOLEAN, rs \in UNION { [1..n -> RowChoices] : n \in 0..MaxProbeLines } }

\* The platform on which detection yields the given snapshot.
PlatformOf(resources) ==
    [host_ok |-> TRUE, probe_raised |-> FALSE,
     rows |-> [i \in 1..Len(resources.neuron_devices) |->
                 Row(TRUE, resources.neuron_devices[i].nc_count,
                     resources.neuron_devices[i].memory_total \div GiB)]]

NoDetector == [neuron_devices |-> <<>>]

RECURSIVE parse_rows_abort(_, _)
parse_rows_abort(rows, devices) ==
    IF Len(rows) = 0 THEN devices
    ELSE IF ~rows[1].text_ok THEN <<>>
    ELSE parse_rows_abort(Tail(rows),
            Append(devices, [nc_count |-> rows[1].nc_count,
                             memory_total |-> rows[1].gb * GiB,
                             memory_available |-> rows[1].gb * GiB]))

\* for line in lines: ... neuron_devices.append(...) / except (ValueError, IndexError): continue
RECURSIVE parse_rows(_, _)
parse_rows(rows, devices) ==
    IF Len(rows) = 0 THEN devices
    ELSE IF ~rows[1].text_ok THEN parse_rows(Tail(rows), devices)
    ELSE parse_rows(Tail(rows),
            Append(devices, [nc_count |-> rows[1].nc_count,
                             memory_total |-> rows[1].gb * GiB,
                             memory_available |-> rows[1].gb * GiB]))

\* _detect_system_resources: the inner try turns a failing probe into an
\* empty device list.
detect_system_resources(pf) ==
    [neuron_devices |-> IF pf.probe_raised THEN <<>> ELSE parse_rows(pf.rows, <<>>)]

\* Overrides a caller can hand to Config.update_params besides the advisor's
\* own result: partial dicts, some with keys update_params does not read.
OverrideChoices ==
    { EmptyDict,
      [tensor_parallel_size |-> 4],
      [block_size |-> 16, max_num_seqs |-> 8],
      [max_model_len |-> 4096, temperature |-> Rat(1, 1), top_p |-> Rat(1, 2)] }

NoFile == [absent |-> TRUE]

\* params = detector.get_recommended_params()
GetRecommendedParams ==
    /\ detector = "ready"
    /\ Len(returned) < MaxCalls
    /\ returned' = Append(returned, get_recommended_params(system_resources, Config["param_detector"]))
    /\ UNCHANGED <<Config, system_resources, update_at, recommended_params_json,
                   platform, detector>>
    /\ UNCHANGED monitorVars
    /\ UNCHANGED testerVars

\* Config.update_params(new_params) in the advisor's process
UpdateParams(new_params) ==
    /\ Config' = [Config EXCEPT !["param_detector"] = update_params(@, new_params)]
    /\ update_at' = IF Len(returned) > 0 /\ new_params = returned[Len(returned)]
                    THEN Len(returned) ELSE update_at
    /\ UNCHANGED <<system_resources, returned, recommended_params_json, platform, detector>>
    /\ UNCHANGED monitorVars
    /\ UNCHANGED testerVars

\* main(): get_recommended_params, Config.update_params(params), json.dump(params)
Main ==
    /\ detector = "ready"
    /\ Len(returned) < MaxCalls
    /\ LET params == get_recommended_params(system_resources, Config["param_detector"])
       IN  /\ returned' = Append(returned, params)
           /\ Config' = [Config EXCEPT !["param_detector"] = update_params(@, params)]
           /\ update_at' = Len(returned) + 1
           /\ recommended_params_json' = params
    /\ UNCHANGED <<system_resources, platform, detector>>
    /\ UNCHANGED monitorVars
    /\ UNCHANGED testerVars

\* No call of get_vllm_metrics has been made.
NoCall == [called |-> FALSE, ok |-> FALSE, time |-> 0, counters |-> EmptyDict]

NoScrape == [called |-> FALSE, http_ok |-> FALSE, ok |-> FALSE, time |-> 0,
             counters |-> EmptyDict, before |-> NoCall]

\* detector = ResourceDetector() in main(): sys.exit(1) when psutil fails
DetectSystemResources ==
    /\ detector = "none"
    /\ IF platform.host_ok
       THEN /\ system_resources' = detect_system_resources(platform)
            /\ detector' = "ready"
       ELSE /\ detector' = "exit1"
            /\ UNCHANGED system_resources
    /\ UNCHANGED <<Config, returned, update_at, recommended_params_json, platform>>
    /\ UNCHANGED <<last_token_count, last_request_count, last_check_time, now,
                   neuron_metrics, vllm_metrics, recommendations, error, scrape,
                   keys, c, pc>>
    /\ UNCHANGED testerVars

\* run_test_suite has not been called.
TesterIdle ==
    /\ num_runs = 0
    /\ test_case = 1
    /\ run = 0
    /\ case_results = <<>>
    /\ all_results = <<>>
    /\ suite = "idle"

MonitorIdle ==
    /\ last_token_count = RInt(0)
    /\ last_request_count = RInt(0)
    /\ last_check_time = 0
    /\ now = 0
    /\ neuron_metrics = EmptyDict
    /\ vllm_metrics = EmptyDict
    /\ recommendations = EmptyDict
    /\ error = "none"
    /\ scrape = NoScrape
    /\ keys = "none"
    /\ c = "none"
    /\ pc = "not_started"

InitAdvisor ==
    /\ Config = [p \in Procs |-> ConfigDefaults]
    /\ system_resources \in Snapshots
    /\ platform = PlatformOf(system_resources)
    /\ detector = "ready"
    /\ returned = <<>>
    /\ update_at = 0
    /\ recommended_params_json = NoFile
    /\ MonitorIdle
    /\ TesterIdle

NextAdvisor ==
    \/ GetRecommendedParams
    \/ \E new_params \in OverrideChoices \cup { returned[i] : i \in 1..Len(returned) } :
           UpdateParams(new_params)
    \/ Main

SpecAdvisor == InitAdvisor /\ [][NextAdvisor]_vars

----------------------------------------------------------------------------
(* scripts/monitor.py: DeepSeekMonitor *)

Put(d, k, v) == [x \in DOMAIN d \cup {k} |-> IF x = k THEN v ELSE d[x]]

\* Entries of "neuron_devices" in the output of `neuron-ls --json`; the last
\* one lacks the keys the monitor reads with a default.
MonDeviceKinds ==
    <<[device_id |-> 0, memory |-> 10 * GiB, memory_used |-> 4 * GiB, nc_count |-> 2, nc_utilization |-> 50],
      [device_id |-> 0, memory |-> 10 * GiB, memory_used |-> 5 * GiB, nc_count |-> 2, nc_utilization |-> 50],
      [device_id |-> 0, memory |-> 10 * GiB, memory_used |-> 7 * GiB, nc_count |-> 2, nc_utilization |-> 50],
      [device_id |-> 0, memory |-> 10 * GiB, memory_used |-> 9 * GiB, nc_count |-> 2, nc_utilization |-> 50],
      [device_id |-> 0, memory |-> 10 * GiB, memory_used |-> 9 * GiB + GiB \div 2, nc_count |-> 2, nc_utilization |-> 50],
      [nc_count |-> 2]>>

MonKindSeqs(n) ==
    { f \in [1..n -> 1..Len(MonDeviceKinds)] : \A i \in 1..(n - 1) : f[i] <= f[i + 1] }

\* Outcomes of subprocess.run(['neuron-ls', '--json']) followed by json.loads:
\* an exception, or a document with a (possibly empty) device list.
Probes ==
    { [ok |-> FALSE, neuron_devices |-> <<>>] } \cup
    UNION { { [ok |-> TRUE, neuron_devices |-> [i \in 1..n |-> MonDeviceKinds[f[i]]]] :
                f \in MonKindSeqs(n) } : n \in 0..MaxMonDevices }

device_metrics(device) ==
    [id |-> Get(device, "device_id", "None"),
     memory_total |-> Rat(Get(device, "memory", 0), GiB),
     memory_used |-> Rat(Get(device, "memory_used", 0), GiB),
     cores |-> Get(device, "nc_count", 0),
     utilization |-> Get(device, "nc_utilization", 0)]

RECURSIVE accumulate_devices(_, _)
accumulate_devices(devices, metrics) ==
    IF Len(devices) = 0 THEN metrics
    ELSE LET dm == device_metrics(devices[1])
         IN  accumulate_devices(Tail(devices),
                [devices |-> Append(metrics.devices, dm),
                 total_memory |-> RAdd(metrics.total_memory, dm.memory_total),
                 used_memory |-> RAdd(metrics.used_memory, dm.memory_used),
                 total_cores |-> metrics.total_cores + dm.cores,
                 active_cores |-> RAdd(metrics.active_cores, Rat(dm.cores * dm.utilization, 100))])

get_neuron_metrics(probe) ==
    IF ~probe.ok THEN EmptyDict
    ELSE accumulate_devices(probe.neuron_devices,
            [devices |-> <<>>, total_memory |-> RInt(0), used_memory |-> RInt(0),
             total_cores |-> 0, active_cores |-> RInt(0)])

\* Lines of the /metrics exposition: the text the monitor matches on, and the
\* last whitespace-separated field (a number, unless float() rejects it).
Line(text, parses, value) == [text |-> text, parses |-> parses, value |-> value]

LineChoices ==
    { Line("# HELP", TRUE, RInt(0)),
      Line("time_to_first_token_seconds_sum", TRUE, RInt(1)),
      Line("time_to_first_token_seconds_sum", TRUE, RInt(2)),
      Line("time_per_output_token_seconds_sum", TRUE, Rat(1, 10)),
      Line("generation_tokens_total", TRUE, RInt(10)),
      Line("generation_tokens_total", TRUE, RInt(40)),
      Line("generation_tokens_total", FALSE, RInt(0)),
      Line("request_success_total", TRUE, RInt(3)),
      Line("request_success_total", TRUE, RInt(5)),
      Line("gpu_cache_usage_perc", TRUE, Rat(1, 2)) }

\* An exposition lists each series once.
LineSeqsOver(choices) ==
    UNION { { ls \in [1..n -> choices] :
                \A i, j \in 1..n : i # j => ls[i].text # ls[j].text } : n \in 0..MaxLines }

LineSeqs == LineSeqsOver(LineChoices)

\* Outcomes of requests.get(.../metrics)
ResponsesOver(seqs) ==
    { [raised |-> TRUE, status_code |-> 0, lines |-> <<>>],
      [raised |-> FALSE, status_code |-> 500, lines |-> <<>>] } \cup
    { [raised |-> FALSE, status_code |-> 200, lines |-> ls] : ls \in seqs }

Responses == ResponsesOver(LineSeqs)

\* The expositions that matter to the evaluation: the latency sum and the
\* token counter, each at two values.
EvalResponses ==
    ResponsesOver(LineSeqsOver({ l \in LineChoices :
        /\ l.parses
        /\ l.text \in {"time_to_first_token_seconds_sum", "generation_tokens_total"} }))

\* The expositions that matter to the rates: comments, one gauge, and the two
\* counters at every value.
ScrapeResponses ==
    ResponsesOver(LineSeqsOver({ l \in LineChoices :
        \/ l.text \in {"# HELP", "generation_tokens_total", "request_success_total"}
        \/ l = Line("time_to_first_token_seconds_sum", TRUE, RInt(1)) }))

\* The probe outcomes used where the accelerators are not the subject: the
\* probe fails, finds no device, or finds one device.
FewProbes ==
    { p \in Probes : Len(p.neuron_devices) = 0 } \cup
    { [ok |-> TRUE, neuron_devices |-> <<MonDeviceKinds[1]>>] }

\* The metrics endpoint is down, answers 500, or serves one counter.
FewResponses ==
    { r \in Responses : r.status_code # 200 } \cup
    { [raised |-> FALSE, status_code |-> 200,
       lines |-> <<Line("generation_tokens_total", TRUE, RInt(10))>>] }

parse_line_keeps_baseline(line, st, time_diff) ==
    IF line.text = "# HELP" THEN st
    ELSE IF ~line.parses THEN [st EXCEPT !.raised = TRUE]
    ELSE IF line.text = "time_to_first_token_seconds_sum"
        THEN [st EXCEPT !.metrics = Put(@, "first_token_latency", line.value)]
    ELSE IF line.text = "time_per_output_token_seconds_sum"
        THEN [st EXCEPT !.metrics = Put(@, "token_latency", line.value)]
    ELSE IF line.text = "generation_tokens_total"
        THEN IF time_diff = 0 THEN [st EXCEPT !.raised = TRUE]
             ELSE [st EXCEPT
                     !.metrics = Put(@, "token_throughput",
                                     RDiv(RSub(line.value, st.last_token_count), RInt(time_diff)))]
    ELSE IF line.text = "request_success_total"
        THEN IF time_diff = 0 THEN [st EXCEPT !.raised = TRUE]
             ELSE [st EXCEPT
                     !.metrics = Put(@, "requests_per_second",
                                     RDiv(RSub(line.value, st.last_request_count), RInt(time_diff)))]
    ELSE IF line.text = "gpu_cache_usage_perc"
        THEN [st EXCEPT !.metrics = Put(@, "cache_usage", RMul(line.value, RInt(100)))]
    ELSE st

\* One iteration of the loop over response.text.split('\n'); st carries the
\* metrics dict, the two counters and whether an exception has been raised.
parse_line(line, st, time_diff) ==
    IF line.text = "# HELP" THEN st
    ELSE IF ~line.parses THEN [st EXCEPT !.raised = TRUE]
    ELSE IF line.text = "time_to_first_token_seconds_sum"
        THEN [st EXCEPT !.metrics = Put(@, "first_token_latency", line.value)]
    ELSE IF line.text = "time_per_output_token_seconds_sum"
        THEN [st EXCEPT !.metrics = Put(@, "token_latency", line.value)]
    ELSE IF line.text = "generation_tokens_total"
        THEN IF time_diff = 0 THEN [st EXCEPT !.raised = TRUE]
             ELSE [st EXCEPT
                     !.metrics = Put(@, "token_throughput",
                                     RDiv(RSub(line.value, st.last_token_count), RInt(time_diff))),
                     !.last_token_count = line.value]
    ELSE IF line.text = "request_success_total"
        THEN IF time_diff = 0 THEN [st EXCEPT !.raised = TRUE]
             ELSE [st EXCEPT
                     !.metrics = Put(@, "requests_per_second",
                                     RDiv(RSub(line.value, st.last_request_count), RInt(time_diff))),
                     !.last_request_count = line.value]
    ELSE IF line.text = "gpu_cache_usage_perc"
        THEN [st EXCEPT !.metrics = Put(@, "cache_usage", RMul(line.value, RInt(100)))]
    ELSE st

RECURSIVE parse_lines(_, _, _)
parse_lines(lines, st, time_diff) ==
    IF Len(lines) = 0 \/ st.raised THEN st
    ELSE parse_lines(Tail(lines), parse_line(lines[1], st, time_diff), time_diff)

CounterSeries == {"generation_tokens_total", "request_success_total"}

\* What a call of get_vllm_metrics at time t was given: whether a 200 response
\* arrived, whether every line of it parses, and the counters it held; and
\* the same of the call before it.
scrape_record(response_in, t, previous) ==
    LET n == Len(response_in.lines)
        good == { i \in 1..n : response_in.lines[i].parses
                                /\ response_in.lines[i].text \in CounterSeries }
    IN  [called |-> TRUE,
         http_ok |-> ~response_in.raised /\ response_in.status_code = 200,
         ok |-> /\ ~response_in.raised
                /\ response_in.status_code = 200
                /\ \A i \in 1..n : response_in.lines[i].parses,
         time |-> t,
         counters |-> [k \in { response_in.lines[i].text : i \in good } |->
                         response_in.lines[CHOOSE i \in good : response_in.lines[i].text = k].value],
         before |-> [called |-> previous.called, ok |-> previous.ok,
                     time |-> previous.time, counters |-> previous.counters]]

Msg(advice, current) == [advice |-> advice, current |-> current]

memory_usage(nm) == RDiv(Get(nm, "used_memory", RInt(0)), Get(nm, "total_memory", RInt(1)))

memory_usage_raises_default0(nm) == Get(nm, "total_memory", RInt(0)).num = 0

memory_usage_raises(nm) == Get(nm, "total_memory", RInt(1)).num = 0

memory_recommendations_095(usage, cls) ==
    IF RGt(usage, Rat(95, 100))
    THEN [memory_high |-> <<Msg("lower max_model_len", cls.MAX_MODEL_LEN),
                            Msg("lower max_num_seqs", cls.MAX_NUM_SEQS),
                            Msg("lower block_size", cls.BLOCK_SIZE)>>]
    ELSE IF RLt(usage, Rat(5, 10))
    THEN [memory_low |-> <<Msg("raise max_model_len", cls.MAX_MODEL_LEN),
                           Msg("raise max_num_seqs", cls.MAX_NUM_SEQS),
                           Msg("raise block_size", cls.BLOCK_SIZE)>>]
    ELSE EmptyDict

memory_recommendations_inclusive(usage, cls) ==
    IF RGe(usage, Rat(9, 10))
    THEN [memory_high |-> <<Msg("lower max_model_len", cls.MAX_MODEL_LEN),
                            Msg("lower max_num_seqs", cls.MAX_NUM_SEQS),
                            Msg("lower block_size", cls.BLOCK_SIZE)>>]
    ELSE IF RLe(usage, Rat(5, 10))
    THEN [memory_low |-> <<Msg("raise max_model_len", cls.MAX_MODEL_LEN),
                           Msg("raise max_num_seqs", cls.MAX_NUM_SEQS),
                           Msg("raise block_size", cls.BLOCK_SIZE)>>]
    ELSE EmptyDict

memory_recommendations(usage, cls) ==
    IF RGt(usage, Rat(9, 10))
    THEN [memory_high |-> <<Msg("lower max_model_len", cls.MAX_MODEL_LEN),
                            Msg("lower max_num_seqs", cls.MAX_NUM_SEQS),
                            Msg("lower block_size", cls.BLOCK_SIZE)>>]
    ELSE IF RLt(usage, Rat(5, 10))
    THEN [memory_low |-> <<Msg("raise max_model_len", cls.MAX_MODEL_LEN),
                           Msg("raise max_num_seqs", cls.MAX_NUM_SEQS),
                           Msg("raise block_size", cls.BLOCK_SIZE)>>]
    ELSE EmptyDict

latency_recommendations(vm, cls) ==
    IF RGt(Get(vm, "first_token_latency", RInt(0)), RInt(1))
    THEN [latency_high |-> <<Msg("raise tensor_parallel_size", cls.TENSOR_PARALLEL_SIZE),
                             Msg("lower max_num_seqs", cls.MAX_NUM_SEQS)>>]
    ELSE EmptyDict

throughput_recommendations(vm, cls) ==
    IF RLt(Get(vm, "token_throughput", RInt(0)), RInt(10))
    THEN [throughput_low |-> <<Msg("raise max_num_seqs", cls.MAX_NUM_SEQS),
                               Msg("raise block_size", cls.BLOCK_SIZE),
                               Msg("check tensor_parallel_size", cls.TENSOR_PARALLEL_SIZE)>>]
    ELSE EmptyDict

get_parameter_recommendations_chained(nm, vm, cls) ==
    IF memory_usage_raises(nm)
    THEN [raised |-> TRUE, value |-> EmptyDict]
    ELSE LET mem == memory_recommendations(memory_usage(nm), cls)
         IN  [raised |-> FALSE,
              value |-> IF mem # EmptyDict THEN mem
                        ELSE latency_recommendations(vm, cls) @@ throughput_recommendations(vm, cls)]

\* The result of a call: raised = TRUE stands for the ZeroDivisionError of
\* line 105, otherwise value is the dict returned.
get_parameter_recommendations(nm, vm, cls) ==
    IF memory_usage_raises(nm)
    THEN [raised |-> TRUE, value |-> EmptyDict]
    ELSE [raised |-> FALSE,
          value |-> memory_recommendations(memory_usage(nm), cls)
                    @@ latency_recommendations(vm, cls)
                    @@ throughput_recommendations(vm, cls)]

\* display(): neuron_metrics = self.get_neuron_metrics(); the probe takes time
GetNeuronMetrics(probe, delay) ==
    /\ pc = "neuron"
    /\ now + delay <= MaxTime
    /\ now' = now + delay
    /\ neuron_metrics' = get_neuron_metrics(probe)
    /\ pc' = "vllm"
    /\ UNCHANGED <<Config, last_token_count, last_request_count, last_check_time,
                   vllm_metrics, recommendations, error, scrape, keys, c>>
    /\ UNCHANGED advisorVars
    /\ UNCHANGED testerVars

\* display(): vllm_metrics = self.get_vllm_metrics()
GetVllmMetrics(response_in) ==
    /\ pc = "vllm"
    /\ scrape' = scrape_record(response_in, now, scrape)
    /\ IF response_in.raised \/ response_in.status_code # 200
       THEN /\ vllm_metrics' = EmptyDict
            /\ UNCHANGED <<last_token_count, last_request_count, last_check_time>>
       ELSE LET current_time == now
                time_diff == current_time - last_check_time
                st == parse_lines(response_in.lines,
                                  [metrics |-> EmptyDict,
                                   last_token_count |-> last_token_count,
                                   last_request_count |-> last_request_count,
                                   raised |-> FALSE],
                                  time_diff)
            IN  /\ last_token_count' = st.last_token_count
                /\ last_request_count' = st.last_request_count
                /\ last_check_time' = IF st.raised THEN last_check_time ELSE current_time
                /\ vllm_metrics' = IF st.raised THEN EmptyDict ELSE st.metrics
    /\ pc' = "evaluate"
    /\ UNCHANGED <<Config, now, neuron_metrics, recommendations, error, keys, c>>
    /\ UNCHANGED advisorVars
    /\ UNCHANGED testerVars

GetParameterRecommendationsApplying ==
    /\ pc = "evaluate"
    /\ LET r == get_parameter_recommendations(neuron_metrics, vllm_metrics, Config["monitor"])
       IN  IF r.raised
           THEN /\ error' = "ZeroDivisionError"
                /\ pc' = "error"
                /\ UNCHANGED <<recommendations, Config>>
           ELSE /\ recommendations' = r.value
                /\ pc' = "render"
                /\ Config' = IF "throughput_low" \in DOMAIN r.value
                             THEN [Config EXCEPT !["monitor"].MAX_NUM_SEQS = @ + 1]
                             ELSE Config
                /\ UNCHANGED error
    /\ UNCHANGED <<last_token_count, last_request_count, last_check_time, now,
                   neuron_metrics, vllm_metrics, scrape, keys, c>>
    /\ UNCHANGED advisorVars
    /\ UNCHANGED testerVars

\* display(): recommendations = self.get_parameter_recommendations(...)
GetParameterRecommendations ==
    /\ pc = "evaluate"
    /\ LET r == get_parameter_recommendations(neuron_metrics, vllm_metrics, Config["monitor"])
       IN  IF r.raised
           THEN /\ error' = "ZeroDivisionError"
                /\ pc' = "error"
                /\ UNCHANGED recommendations
           ELSE /\ recommendations' = r.value
                /\ pc' = "render"
                /\ UNCHANGED error
    /\ UNCHANGED <<Config, last_token_count, last_request_count, last_check_time, now,
                   neuron_metrics, vllm_metrics, scrape, keys, c>>
    /\ UNCHANGED advisorVars
    /\ UNCHANGED testerVars

\* display(): the screen is drawn (an addstr outside the window raises), then
\* c = stdscr.getch() returns the pending key or waits for the operator's next
\* one; 'q' ends the loop and display() returns, any other key sleeps
\* MONITOR_INTERVAL and starts the next iteration, whose locals are assigned
\* afresh before they are read.
Render(draw_ok, key) ==
    /\ pc = "render"
    /\ IF ~draw_ok
       THEN /\ error' = "curses.error"
            /\ pc' = "error"
            /\ UNCHANGED <<now, neuron_metrics, vllm_metrics, recommendations, keys, c>>
       ELSE LET got == IF keys # "none" THEN keys ELSE key
            IN  /\ keys' = "none"
                /\ c' = got
                /\ UNCHANGED error
                /\ IF got = "q"
                   THEN /\ pc' = "done"
                        /\ neuron_metrics' = EmptyDict
                        /\ vllm_metrics' = EmptyDict
                        /\ recommendations' = EmptyDict
                        /\ UNCHANGED now
                   ELSE /\ now + Config["monitor"].MONITOR_INTERVAL <= MaxTime
                        /\ now' = now + Config["monitor"].MONITOR_INTERVAL
                        /\ pc' = "neuron"
                        /\ neuron_metrics' = EmptyDict
                        /\ vllm_metrics' = EmptyDict
                        /\ recommendations' = EmptyDict
    /\ UNCHANGED <<Config, last_token_count, last_request_count, last_check_time, scrape>>
    /\ UNCHANGED advisorVars
    /\ UNCHANGED testerVars

HandleErrorReraise ==
    /\ pc = "error"
    /\ pc' = "done"
    /\ UNCHANGED <<Config, last_token_count, last_request_count, last_check_time, now,
                   neuron_metrics, vllm_metrics, recommendations, error, scrape,
                   keys, c>>
    /\ UNCHANGED advisorVars
    /\ UNCHANGED testerVars

\* display(): except Exception: log, show the error, time.sleep(5), next iteration
HandleError ==
    /\ pc = "error"
    /\ now + 5 <= MaxTime
    /\ now' = now + 5
    /\ pc' = "neuron"
    /\ error' = "none"
    /\ neuron_metrics' = EmptyDict
    /\ vllm_metrics' = EmptyDict
    /\ recommendations' = EmptyDict
    /\ UNCHANGED <<Config, last_token_count, last_request_count, last_check_time, scrape,
                   keys, c>>
    /\ UNCHANGED advisorVars
    /\ UNCHANGED testerVars

\* display(): except KeyboardInterrupt: break; display() returns and its
\* locals are gone
KeyboardInterrupt ==
    /\ pc \in {"neuron", "vllm", "evaluate", "render", "error"}
    /\ pc' = "done"
    /\ error' = "KeyboardInterrupt"
    /\ neuron_metrics' = EmptyDict
    /\ vllm_metrics' = EmptyDict
    /\ recommendations' = EmptyDict
    /\ UNCHANGED <<Config, last_token_count, last_request_count, last_check_time, now,
                   scrape, keys, c>>
    /\ UNCHANGED advisorVars
    /\ UNCHANGED testerVars

\* The operator types a key while the monitor is not waiting in getch().
PressKey(key) ==
    /\ pc \in {"neuron", "vllm", "evaluate", "render", "error"}
    /\ keys = "none"
    /\ keys' = key
    /\ UNCHANGED <<Config, last_token_count, last_request_count, last_check_time, now,
                   neuron_metrics, vllm_metrics, recommendations, error, scrape,
                   c, pc>>
    /\ UNCHANGED advisorVars
    /\ UNCHANGED testerVars

\* python monitor.py: the module imports config afresh, so the process starts
\* from the class attributes; nothing in it reads recommended_params.json.
\* DeepSeekMonitor.__init__ zeroes the baselines and stamps the time.
StartMonitor ==
    /\ pc = "not_started"
    /\ pc' = "neuron"
    /\ Config' = [Config EXCEPT !["monitor"] = ConfigDefaults]
    /\ last_token_count' = RInt(0)
    /\ last_request_count' = RInt(0)
    /\ last_check_time' = now
    /\ UNCHANGED <<now, neuron_metrics, vllm_metrics, recommendations, error, scrape,
                   keys, c>>
    /\ UNCHANGED advisorVars
    /\ UNCHANGED testerVars

\* main(): monitor = DeepSeekMonitor(); curses.wrapper(monitor.display)
InitMonitor ==
    /\ Config = [p \in Procs |-> ConfigDefaults]
    /\ system_resources = NoDetector
    /\ returned = <<>>
    /\ update_at = 0
    /\ recommended_params_json = NoFile
    /\ platform = PlatformOf(NoDetector)
    /\ detector = "none"
    /\ last_token_count = RInt(0)
    /\ last_request_count = RInt(0)
    /\ last_check_time = 0
    /\ now = 0
    /\ neuron_metrics = EmptyDict
    /\ vllm_metrics = EmptyDict
    /\ recommendations = EmptyDict
    /\ error = "none"
    /\ scrape = NoScrape
    /\ keys = "none"
    /\ c = "none"
    /\ pc = "neuron"
    /\ TesterIdle

NextMonitor ==
    \/ \E probe \in Probes, delay \in 1..MaxProbeDelay : GetNeuronMetrics(probe, delay)
    \/ \E response_in \in EvalResponses : GetVllmMetrics(response_in)
    \/ GetParameterRecommendations
    \/ \E key \in {"q", "other"} : Render(TRUE, key)
    \/ HandleError
    \/ KeyboardInterrupt

SpecMonitor == InitMonitor /\ [][NextMonitor]_vars

\* The monitor over the counters' expositions, on few probe outcomes.
NextScrape ==
    \/ \E probe \in FewProbes, delay \in 1..MaxProbeDelay : GetNeuronMetrics(probe, delay)
    \/ \E response_in \in ScrapeResponses : GetVllmMetrics(response_in)
    \/ GetParameterRecommendations
    \/ \E key \in {"q", "other"} : Render(TRUE, key)
    \/ HandleError
    \/ KeyboardInterrupt

SpecScrape == InitMonitor /\ [][NextScrape]_vars

\* The loop of display() with an operator who also types ahead and a screen
\* that may be too small to draw on.
NextLoop ==
    \/ \E probe \in FewProbes, delay \in 1..MaxProbeDelay : GetNeuronMetrics(probe, delay)
    \/ \E response_in \in FewResponses : GetVllmMetrics(response_in)
    \/ GetParameterRecommendations
    \/ \E draw_ok \in BOOLEAN, key \in {"q", "other"} : Render(draw_ok, key)
    \/ HandleError
    \/ KeyboardInterrupt
    \/ \E key \in {"q", "other"} : PressKey(key)

SpecLoop == InitMonitor /\ [][NextLoop]_vars

\* python param_detector.py on some platform, then python monitor.py once
\* the advisor has written its file or has exited on the host failure; the
\* advisor may be run again while the monitor is up.
InitStartup ==
    /\ Config = [p \in Procs |-> ConfigDefaults]
    /\ platform \in Platforms
    /\ detector = "none"
    /\ system_resources = NoDetector
    /\ returned = <<>>
    /\ update_at = 0
    /\ recommended_params_json = NoFile
    /\ MonitorIdle
    /\ TesterIdle

NextStartup ==
    \/ DetectSystemResources
    \/ Main
    \/ (recommended_params_json # NoFile \/ detector = "exit1") /\ StartMonitor
    \/ \E probe \in FewProbes, delay \in 1..MaxProbeDelay : GetNeuronMetrics(probe, delay)
    \/ \E response_in \in FewResponses : GetVllmMetrics(response_in)
    \/ GetParameterRecommendations
    \/ \E key \in {"q", "other"} : Render(TRUE, key)
    \/ HandleError
    \/ KeyboardInterrupt

SpecStartup == InitStartup /\ [][NextStartup]_vars

----------------------------------------------------------------------------
(* test_model.py: DeepSeekTester *)

\* get_test_cases(): the prompts are left out, the harness only sends them.
get_test_cases ==
    << [category |-> "short", name |-> "Basic Math", expected_length |-> "short"],
       [category |-> "short", name |-> "Simple Definition", expected_length |-> "short"],
       [category |-> "medium", name |-> "Code Generation", expected_length |-> "medium"],
       [category |-> "medium", name |-> "Complex Math", expected_length |-> "medium"],
       [category |-> "long", name |-> "Essay Generation", expected_length |-> "long"],
       [category |-> "long", name |-> "Technical Analysis", expected_length |-> "long"],
       [category |-> "special", name |-> "Context Window Test", expected_length |-> "medium"],
       [category |-> "special", name |-> "Multi-turn Dialogue", expected_length |-> "medium"] >>

\* What requests.post(.../v1/completions, timeout=30) meets: it raises (the
\* 30 s timeout, a refused connection), or it returns a status and a body
\* that is or is not the JSON with choices[0].text the harness reads.
Outcome(raised, status_code, body_ok) ==
    [raised |-> raised, status_code |-> status_code, body_ok |-> body_ok]

Outcomes ==
    { Outcome("none", 200, TRUE),
      Outcome("none", 200, FALSE),
      Outcome("none", 500, FALSE),
      Outcome("Timeout", 0, FALSE) }

Succeeds(outcome) ==
    outcome.raised = "none" /\ outcome.status_code = 200 /\ outcome.body_ok

test_completion_uncaught(outcome) ==
    IF outcome.raised # "none"
    THEN [raised |-> TRUE, value |-> EmptyDict]
    ELSE IF outcome.status_code = 200
    THEN IF outcome.body_ok
         THEN [raised |-> FALSE, value |-> [success |-> TRUE, output_length |-> 1]]
         ELSE [raised |-> FALSE, value |-> [success |-> FALSE, error |-> "KeyError"]]
    ELSE [raised |-> FALSE, value |-> [success |-> FALSE, error |-> "HTTP"]]

\* test_completion: the dict it returns; raised says whether an exception
\* leaves it. The measured latency and the output text are left out.
test_completion(outcome) ==
    IF outcome.raised # "none"
    THEN [raised |-> FALSE, value |-> [success |-> FALSE, error |-> outcome.raised]]
    ELSE IF outcome.status_code = 200
    THEN IF outcome.body_ok
         THEN [raised |-> FALSE, value |-> [success |-> TRUE, output_length |-> 1]]
         ELSE [raised |-> FALSE, value |-> [success |-> FALSE, error |-> "KeyError"]]
    ELSE [raised |-> FALSE, value |-> [success |-> FALSE, error |-> "HTTP"]]

\* The requests of this call of run_test_suite that failed so far.
Failures ==
    Cardinality({ i \in 1..Len(all_results) : ~all_results[i].success })
    + (IF suite = "for_run"
       THEN Cardinality({ i \in 1..Len(case_results) : ~case_results[i].success })
       ELSE 0)

\* results = asyncio.run(tester.run_test_suite(args.runs))
RunTestSuite(n) ==
    /\ suite = "idle"
    /\ num_runs' = n
    /\ test_case' = 1
    /\ all_results' = <<>>
    /\ suite' = "for_test_case"
    /\ UNCHANGED <<run, case_results>>
    /\ UNCHANGED <<Config, advisorVars, monitorVars>>

\* for test_case in test_cases: case_results = []; after the last one,
\* return all_results
ForTestCase ==
    /\ suite = "for_test_case"
    /\ IF test_case <= Len(get_test_cases)
       THEN /\ case_results' = <<>>
            /\ run' = 0
            /\ suite' = "for_run"
       ELSE /\ suite' = "returned"
            /\ UNCHANGED <<case_results, run>>
    /\ UNCHANGED <<num_runs, test_case, all_results>>
    /\ UNCHANGED <<Config, advisorVars, monitorVars>>

\* One iteration of for run in range(num_runs): the request, result.update,
\* case_results.append, the log line (which reads output_length or error),
\* asyncio.sleep(1).
TestCompletion(outcome) ==
    /\ suite = "for_run"
    /\ run < num_runs
    /\ Succeeds(outcome) \/ Failures < MaxFailures
    /\ LET r == test_completion(outcome)
           tags == [test_name |-> get_test_cases[test_case].name,
                    category |-> get_test_cases[test_case].category,
                    expected_length |-> get_test_cases[test_case].expected_length,
                    run |-> run + 1]
       IN  IF r.raised
           THEN /\ suite' = "raised"
                /\ UNCHANGED <<case_results, run>>
           ELSE LET result == tags @@ r.value
                    logged == IF result.success THEN "output_length" \in DOMAIN result
                                                ELSE "error" \in DOMAIN result
                IN  /\ case_results' = Append(case_results, result)
                    /\ suite' = IF logged THEN "for_run" ELSE "raised"
                    /\ run' = IF logged THEN run + 1 ELSE run
    /\ UNCHANGED <<num_runs, test_case, all_results>>
    /\ UNCHANGED <<Config, advisorVars, monitorVars>>

\* range(num_runs) is exhausted: all_results.extend(case_results)
ExtendAllResults ==
    /\ suite = "for_run"
    /\ run >= num_runs
    /\ all_results' = all_results \o case_results
    /\ test_case' = test_case + 1
    /\ suite' = "for_test_case"
    /\ UNCHANGED <<num_runs, run, case_results>>
    /\ UNCHANGED <<Config, advisorVars, monitorVars>>

\* main(): tester = DeepSeekTester(args.endpoint)
InitTester ==
    /\ Config = [p \in Procs |-> ConfigDefaults]
    /\ system_resources = NoDetector
    /\ returned = <<>>
    /\ update_at = 0
    /\ recommended_params_json = NoFile
    /\ platform = PlatformOf(NoDetector)
    /\ detector = "none"
    /\ MonitorIdle
    /\ TesterIdle

NextTester ==
    \/ \E n \in 0..MaxRuns : RunTestSuite(n)
    \/ ForTestCase
    \/ \E outcome \in Outcomes : TestCompletion(outcome)
    \/ ExtendAllResults

SpecTester == InitTester /\ [][NextTester]_vars

----------------------------------------------------------------------------
(* Properties of the advisor, checked under SpecAdvisor *)

NoAccelerators == Len(system_resources.neuron_devices) = 0

\* C1: for a snapshot with an empty accelerator list get_recommended_params
\* returns the lowest tier of every memory-derived field: block_size = 8,
\* max_num_seqs = 4, max_model_len = 2048.
C1_EmptyLowestTier ==
    NoAccelerators =>
        \A i \in 1..Len(returned) :
            /\ returned[i].block_size = 8
            /\ returned[i].max_num_seqs = 4
            /\ returned[i].max_model_len = 2048

C1_Witness == NoAccelerators /\ Len(returned) >= 1 /\ returned[1].block_size = 8

\* C2 as stated: for a snapshot with an empty accelerator list the advisor
\* returns tensor_parallel_size = 1.
C2_Original ==
    NoAccelerators => \A i \in 1..Len(returned) : returned[i].tensor_parallel_size = 1

\* C2 (amended): for a snapshot with an empty accelerator list the advisor
\* returns tensor_parallel_size = 2, its lowest tier.
C2_EmptyTensorParallel ==
    NoAccelerators => \A i \in 1..Len(returned) : returned[i].tensor_parallel_size = 2

C2_Witness == NoAccelerators /\ Len(returned) >= 1 /\ returned[1].tensor_parallel_size = 2

OneDevice8Cores32GiB ==
    /\ Len(system_resources.neuron_devices) = 1
    /\ system_resources.neuron_devices[1].nc_count = 8
    /\ system_resources.neuron_devices[1].memory_total = 32 * GiB

\* C3 as stated: tensor_parallel_size is a step function of the sum of the
\* accelerators' core counts: 8 from 8 cores, 4 from 4, 2 from 2, otherwise 1;
\* one accelerator of 8 cores and 32 GiB yields 8.
C3_Original ==
    \A i \in 1..Len(returned) :
        LET cores == SumField(system_resources.neuron_devices, "nc_count")
        IN  /\ returned[i].tensor_parallel_size =
                   IF cores >= 8 THEN 8 ELSE IF cores >= 4 THEN 4 ELSE IF cores >= 2 THEN 2 ELSE 1
            /\ OneDevice8Cores32GiB => returned[i].tensor_parallel_size = 8

\* C3 (amended): tensor_parallel_size is a step function of the number of
\* accelerators in the snapshot: 8 from 8 accelerators, 4 from 4, otherwise 2,
\* whatever their core counts; one accelerator of 8 cores and 32 GiB yields 2.
C3_TensorParallelByDeviceCount ==
    \A i \in 1..Len(returned) :
        LET n == Len(system_resources.neuron_devices)
        IN  /\ returned[i].tensor_parallel_size = IF n >= 8 THEN 8 ELSE IF n >= 4 THEN 4 ELSE 2
            /\ OneDevice8Cores32GiB => returned[i].tensor_parallel_size = 2

C3_Witness == OneDevice8Cores32GiB /\ Len(returned) >= 1 /\ returned[1].tensor_parallel_size = 2

TotalMemory(resources) == SumField(resources.neuron_devices, "memory_total")

SameCores(a, b) ==
    /\ Len(a.neuron_devices) = Len(b.neuron_devices)
    /\ \A i \in 1..Len(a.neuron_devices) :
           a.neuron_devices[i].nc_count = b.neuron_devices[i].nc_count

MemoryFieldsLeq(p, q) ==
    /\ p.block_size <= q.block_size
    /\ p.max_num_seqs <= q.max_num_seqs
    /\ p.max_model_len <= q.max_model_len

\* C4: of two snapshots with the same core counts, the one with no more total
\* accelerator memory gets no larger block_size, max_num_seqs and max_model_len.
C4_MonotoneInMemory ==
    \A i \in 1..Len(returned) :
        \A other \in Snapshots :
            SameCores(system_resources, other) =>
                LET q == get_recommended_params(other, Config["param_detector"])
                IN  /\ TotalMemory(system_resources) <= TotalMemory(other)
                           => MemoryFieldsLeq(returned[i], q)
                    /\ TotalMemory(other) <= TotalMemory(system_resources)
                           => MemoryFieldsLeq(q, returned[i])

C4_Witness ==
    /\ Len(returned) >= 1
    /\ \E other \in Snapshots :
           /\ SameCores(system_resources, other)
           /\ TotalMemory(system_resources) < TotalMemory(other)
           /\ returned[1].max_num_seqs < calculate_max_num_seqs(other)
           /\ returned[1].max_num_seqs > 4

\* C5: every call of get_recommended_params on the same snapshot returns the
\* same dict in all six fields, also after Config.update_params has been
\* applied to an earlier result.
C5_Deterministic ==
    \A i, j \in 1..Len(returned) : returned[i] = returned[j]

C5_Witness == Len(returned) >= 2 /\ update_at = 1 /\ returned[2] = returned[1]

----------------------------------------------------------------------------
(* Properties of the monitor, checked under SpecMonitor *)

Evaluated == pc = "render"

MemoryUsageFraction ==
    RDiv(Get(neuron_metrics, "used_memory", RInt(0)), Get(neuron_metrics, "total_memory", RInt(1)))

Categories == DOMAIN recommendations

\* C6: whenever memory_usage_fraction > 0.9 the evaluation emits memory_high
\* and not memory_low, and no evaluation emits both.
C6_MemoryHighExclusive ==
    /\ ~({"memory_high", "memory_low"} \subseteq Categories)
    /\ (Evaluated /\ RGt(MemoryUsageFraction, Rat(9, 10)))
           => ("memory_high" \in Categories /\ "memory_low" \notin Categories)

C6_Witness ==
    /\ Evaluated
    /\ MemoryUsageFraction = Rat(95, 100)
    /\ "memory_high" \in Categories

\* C7: for 0.5 <= memory_usage_fraction <= 0.9 the evaluation emits neither
\* memory_high nor memory_low.
C7_DeadZone ==
    (Evaluated /\ RGe(MemoryUsageFraction, Rat(5, 10)) /\ RLe(MemoryUsageFraction, Rat(9, 10)))
        => (Categories \cap {"memory_high", "memory_low"} = {})

C7_Witness ==
    /\ Evaluated
    /\ MemoryUsageFraction = Rat(9, 10)
    /\ Categories \cap {"memory_high", "memory_low"} = {}

\* Inputs of the evaluation: what the two collectors return for the bounded
\* probe outcomes and expositions (first scrape, one second after start).
NeuronInputs == { get_neuron_metrics(p) : p \in Probes }

VllmInputs ==
    { parse_lines(r.lines,
                  [metrics |-> EmptyDict, last_token_count |-> RInt(0),
                   last_request_count |-> RInt(0), raised |-> FALSE], 1).metrics :
        r \in EvalResponses }

AllCombinationsProduced ==
    \A mem \in {{}, {"memory_high"}, {"memory_low"}} :
        \A lat \in SUBSET {"latency_high"} :
            \A thr \in SUBSET {"throughput_low"} :
                \E nm \in NeuronInputs, vm \in VllmInputs :
                    LET r == get_parameter_recommendations(nm, vm, ConfigDefaults)
                    IN  ~r.raised /\ DOMAIN r.value = mem \cup lat \cup thr

\* C8: latency_high is emitted exactly when first_token_latency > 1.0 and
\* throughput_low exactly when token_throughput < 10, whatever the memory
\* category; each of the 12 combinations of at most one memory category with
\* latency_high and throughput_low present or absent is produced by an input.
C8_LatencyThroughputIndependent ==
    /\ Evaluated =>
        /\ "latency_high" \in Categories
               <=> RGt(Get(vllm_metrics, "first_token_latency", RInt(0)), RInt(1))
        /\ "throughput_low" \in Categories
               <=> RLt(Get(vllm_metrics, "token_throughput", RInt(0)), RInt(10))
    /\ AllCombinationsProduced

C8_Witness ==
    /\ Evaluated
    /\ Categories = {"memory_high", "latency_high"}
    /\ "token_throughput" \in DOMAIN vllm_metrics

\* C9: a call of get_parameter_recommendations leaves the Config class state
\* and the monitor's last_token_count, last_request_count and last_check_time
\* unchanged.
C9_SideEffectFree ==
    [][pc = "evaluate" =>
          UNCHANGED <<Config, last_token_count, last_request_count, last_check_time>>]_vars

C9_Witness ==
    /\ Evaluated
    /\ "throughput_low" \in Categories
    /\ last_token_count = RInt(10)
    /\ Config["monitor"] = ConfigDefaults

\* C10: get_parameter_recommendations returns a mapping and does not raise
\* when the hardware snapshot holds no accelerators.
C10_NoAcceleratorsNoRaise ==
    ("devices" \in DOMAIN neuron_metrics /\ neuron_metrics.devices = <<>>)
        => ~(pc = "error" /\ error = "ZeroDivisionError")

----------------------------------------------------------------------------
(* Properties of get_vllm_metrics, checked under SpecScrape *)

\* The key of the rate derived from a counter series.
RateKey(series) ==
    IF series = "generation_tokens_total" THEN "token_throughput" ELSE "requests_per_second"

\* get_vllm_metrics has just returned.
Scraped == pc = "evaluate" /\ scrape.called

\* C11: every rate the monitor reports (token_throughput and
\* requests_per_second) is >= 0, also when a counter is lower than at the
\* scrape before.
C11_RatesNonNegative ==
    \A k \in {"token_throughput", "requests_per_second"} \cap DOMAIN vllm_metrics :
        RGe(vllm_metrics[k], RInt(0))

\* This call and the call before it both got a 200 response whose lines all
\* parse, both held the counter, and the counter did not go down.
Successive(series) ==
    /\ Scraped
    /\ scrape.ok
    /\ scrape.before.ok
    /\ series \in DOMAIN scrape.counters
    /\ series \in DOMAIN scrape.before.counters
    /\ RLe(scrape.before.counters[series], scrape.counters[series])

\* C12: for two successive successful scrapes at t0 < t1 that both hold a
\* counter, the later not below the earlier, the reported rate is
\* (counter(t1) - counter(t0)) / (t1 - t0), for the token counter and for the
\* request counter.
C12_RateFormula ==
    \A series \in CounterSeries :
        Successive(series) =>
            /\ scrape.before.time < scrape.time
            /\ RateKey(series) \in DOMAIN vllm_metrics
            /\ vllm_metrics[RateKey(series)] =
                   RDiv(RSub(scrape.counters[series], scrape.before.counters[series]),
                        RInt(scrape.time - scrape.before.time))

C12_Witness ==
    /\ Successive("generation_tokens_total")
    /\ Successive("request_success_total")
    /\ scrape.before.counters["generation_tokens_total"] = RInt(10)
    /\ scrape.counters["generation_tokens_total"] = RInt(40)
    /\ scrape.before.counters["request_success_total"] = RInt(3)
    /\ scrape.counters["request_success_total"] = RInt(5)
    /\ vllm_metrics["token_throughput"] = RInt(10)

\* C14: the first scrape after the monitor started reports token_throughput = 0
\* and requests_per_second = 0, whatever the counters hold.
C14_FirstScrapeZero ==
    (Scraped /\ ~scrape.before.called) =>
        \A k \in {"token_throughput", "requests_per_second"} \cap DOMAIN vllm_metrics :
            vllm_metrics[k] = RInt(0)

\* C15: when a 200 response holds a line whose value does not parse, the
\* rate of every counter whose line does parse is still returned.
C15_MalformedLineSkipsOnlyThatSeries ==
    (Scraped /\ scrape.http_ok /\ ~scrape.ok) =>
        \A series \in DOMAIN scrape.counters : RateKey(series) \in DOMAIN vllm_metrics

\* C20: a call of get_vllm_metrics that returns the empty mapping changes
\* none of last_token_count, last_request_count and last_check_time, and a
\* call that changes last_check_time sets both baselines to counters of the
\* response it read.
C20_BaselinesFromOneScrape ==
    [][(pc = "vllm" /\ pc' = "evaluate") =>
          /\ vllm_metrics' = EmptyDict =>
                 UNCHANGED <<last_token_count, last_request_count, last_check_time>>
          /\ last_check_time' # last_check_time =>
                 /\ CounterSeries \subseteq DOMAIN scrape'.counters
                 /\ last_token_count' = scrape'.counters["generation_tokens_total"]
                 /\ last_request_count' = scrape'.counters["request_success_total"]]_vars

----------------------------------------------------------------------------
(* Properties of Config.update_params, checked under SpecAdvisor *)

\* The override key that update_params reads for a Config attribute.
ParamKey ==
    [TENSOR_PARALLEL_SIZE |-> "tensor_parallel_size",
     MAX_MODEL_LEN |-> "max_model_len",
     MAX_NUM_SEQS |-> "max_num_seqs",
     BLOCK_SIZE |-> "block_size"]

\* C13: Config.update_params gives each of tensor_parallel_size,
\* max_model_len, max_num_seqs and block_size the override's value when the
\* override holds the key and its previous value otherwise, and leaves every
\* other Config attribute unchanged whatever keys the override holds.
C13_UpdateParamsMerges ==
    \A new_params \in OverrideChoices \cup { returned[i] : i \in 1..Len(returned) } :
        LET cls == Config["param_detector"]
            merged == update_params(cls, new_params)
        IN  /\ DOMAIN merged = DOMAIN cls
            /\ \A attr \in DOMAIN ParamKey :
                   merged[attr] = IF ParamKey[attr] \in DOMAIN new_params
                                  THEN new_params[ParamKey[attr]]
                                  ELSE cls[attr]
            /\ \A attr \in DOMAIN cls \ DOMAIN ParamKey : merged[attr] = cls[attr]

\* Config after the overrides {tensor_parallel_size: 4} and {max_model_len:
\* 4096, temperature: 1.0, top_p: 0.5}.
C13_Witness ==
    /\ Config["param_detector"].TENSOR_PARALLEL_SIZE = 4
    /\ Config["param_detector"].MAX_MODEL_LEN = 4096
    /\ Config["param_detector"].BLOCK_SIZE = ConfigDefaults.BLOCK_SIZE
    /\ Config["param_detector"].TEMPERATURE = ConfigDefaults.TEMPERATURE

----------------------------------------------------------------------------
(* Properties of the loop of display(), checked under SpecLoop *)

\* C16: no iteration of the loop ends, and the next one begins, while the
\* quit key has been pressed: every iteration, also one that raised, reads
\* the pending key and the loop ends when it is 'q'.
C16_QuitCheckedEveryTick ==
    [][(pc \in {"render", "error"} /\ pc' = "neuron") => keys # "q"]_vars

\* C17: display() returns only after getch() gave 'q' or on
\* KeyboardInterrupt, and a call of get_vllm_metrics that got no 200 response
\* hands the empty mapping to the evaluation.
C17_LoopEndsOnlyOnQuitOrInterrupt ==
    /\ pc = "done" => (c = "q" \/ error = "KeyboardInterrupt")
    /\ (Scraped /\ ~scrape.http_ok) => vllm_metrics = EmptyDict

\* The second iteration, entered through the except branch after the first
\* raised (no key has been read yet, 1 + 5 + 1 seconds have passed), with a
\* failing probe and an endpoint that is down, now being drawn.
C17_Witness ==
    /\ pc = "render"
    /\ now = 7
    /\ c = "none"
    /\ neuron_metrics = EmptyDict
    /\ vllm_metrics = EmptyDict
    /\ ~scrape.http_ok

----------------------------------------------------------------------------
(* Properties of the advisor run and the monitor after it, checked under
   SpecStartup *)

IsParsed(row) == row.text_ok

\* The devices of the rows of the neuron-ls table that parse, in order.
ParsedDevices(pf) ==
    IF pf.probe_raised THEN <<>>
    ELSE LET rows == SelectSeq(pf.rows, IsParsed)
         IN  [i \in 1..Len(rows) |->
                 [nc_count |-> rows[i].nc_count,
                  memory_total |-> rows[i].gb * GiB,
                  memory_available |-> rows[i].gb * GiB]]

\* C18: the advisor run exits exactly when the host's CPU and memory cannot
\* be read; otherwise, also when neuron-ls fails or prints rows that do not
\* parse, the snapshot holds the devices of the rows that parse and
\* get_recommended_params yields the four parameters.
C18_StartupDegrades ==
    /\ detector = "exit1" => ~platform.host_ok
    /\ detector = "ready" =>
          /\ platform.host_ok
          /\ system_resources.neuron_devices = ParsedDevices(platform)
          /\ {"tensor_parallel_size", "max_model_len", "max_num_seqs", "block_size"}
                 \subseteq DOMAIN get_recommended_params(system_resources, Config["param_detector"])
    /\ recommended_params_json # NoFile => detector = "ready"

\* main() has written the parameters for a table of one device row and one
\* row that does not parse.
C18_Witness ==
    /\ platform.rows = <<Row(FALSE, 0, 0), Row(TRUE, 8, 128)>>
    /\ Len(system_resources.neuron_devices) = 1
    /\ recommended_params_json # NoFile
    /\ recommended_params_json.block_size = 16

\* The parameter a suggestion string names.
CitedParam(advice) ==
    IF advice \in {"lower max_model_len", "raise max_model_len"} THEN "max_model_len"
    ELSE IF advice \in {"lower max_num_seqs", "raise max_num_seqs"} THEN "max_num_seqs"
    ELSE IF advice \in {"lower block_size", "raise block_size"} THEN "block_size"
    ELSE "tensor_parallel_size"

\* C19: a monitor started after the advisor wrote recommended_params.json
\* cites in every suggestion string the value that file holds for the
\* parameter.
C19_MonitorCitesRecommended ==
    (pc = "render" /\ recommended_params_json # NoFile) =>
        \A category \in DOMAIN recommendations :
            \A i \in 1..Len(recommendations[category]) :
                recommendations[category][i].current =
                    recommended_params_json[CitedParam(recommendations[category][i].advice)]

----------------------------------------------------------------------------
(* Properties of an iteration without data, checked under SpecLoop *)

\* C21: when get_neuron_metrics and get_vllm_metrics both returned the empty
\* mapping, get_parameter_recommendations does not raise and returns exactly
\* the categories memory_low and throughput_low.
C21_NoDataAdvisesRaising ==
    /\ (pc = "render" /\ neuron_metrics = EmptyDict /\ vllm_metrics = EmptyDict) =>
          DOMAIN recommendations = {"memory_low", "throughput_low"}
    /\ (pc = "error" /\ error = "ZeroDivisionError") => neuron_metrics # EmptyDict

\* The probe failed and the endpoint gave no 200 response in this iteration,
\* and the evaluation has returned.
C21_Witness ==
    /\ pc = "render"
    /\ scrape.called
    /\ ~scrape.http_ok
    /\ neuron_metrics = EmptyDict
    /\ vllm_metrics = EmptyDict
    /\ "memory_low" \in DOMAIN recommendations
    /\ "throughput_low" \in DOMAIN recommendations

----------------------------------------------------------------------------
(* Properties of run_test_suite, checked under SpecTester *)

\* The results gathered so far, in the order in which they will be returned.
Collected == all_results \o (IF suite = "for_run" THEN case_results ELSE <<>>)

\* How far the call has got: it grows with every step and is at most
\* Len(get_test_cases) * (num_runs + 2) + 1.
Progress ==
    IF suite = "idle" THEN -1
    ELSE (test_case - 1) * (num_runs + 2)
         + (IF suite \in {"for_run", "raised"} THEN 1 + run ELSE 0)
         + (IF suite = "returned" THEN 1 ELSE 0)

\* No exception leaves the suite; the i-th result gathered belongs to test
\* case (i-1) div num_runs + 1 and run (i-1) mod num_runs + 1 and carries
\* that case's name and category; a request that failed gives a result with
\* success = false; the value returned holds one result per case and run.
SuiteResults ==
    /\ suite # "raised"
    /\ Len(Collected) <= Len(get_test_cases) * num_runs
    /\ \A i \in 1..Len(Collected) :
          LET k == ((i - 1) \div num_runs) + 1
              r == ((i - 1) % num_runs) + 1
          IN  /\ {"success", "test_name", "category", "run"} \subseteq DOMAIN Collected[i]
              /\ Collected[i].test_name = get_test_cases[k].name
              /\ Collected[i].category = get_test_cases[k].category
              /\ Collected[i].run = r
              /\ Collected[i].success \in BOOLEAN
    /\ \A outcome \in Outcomes :
          LET result == test_completion(outcome)
          IN  ~result.raised /\ result.value.success = Succeeds(outcome)
    /\ suite = "returned" => Len(all_results) = Len(get_test_cases) * num_runs
    /\ suite \in {"for_test_case", "for_run"} => ENABLED NextTester
    /\ Progress <= Len(get_test_cases) * (num_runs + 2) + 1

\* C22: run_test_suite(num_runs) terminates (every step of it moves on, a
\* bounded number of times, and it is never stuck before it returns) and
\* returns Len(get_test_cases) * num_runs results, ordered by test case and
\* then by run 1..num_runs, each tagged with its test name, category and run;
\* a failed request is a result with success = false and does not end the
\* suite.
C22_SuiteCompletes ==
    []SuiteResults /\ [][Progress' > Progress]_vars

\* run_test_suite(2) has returned its 16 results, of which the second run of
\* the first case failed on the timeout.
C22_Witness ==
    /\ suite = "returned"
    /\ num_runs = 2
    /\ Len(all_results) = 16
    /\ ~all_results[2].success
    /\ all_results[2].error = "Timeout"
    /\ all_results[2].test_name = "Basic Math"
    /\ all_results[2].run = 2
    /\ all_results[16].success
    /\ all_results[16].test_name = "Multi-turn Dialogue"

====
